---- MODULE Spec2Model ----
(***************************************************************************)
(* Model of src/app.py: the cleaning pipeline process_data (district and   *)
(* subject filters, numeric coercion, area / unit-price derivation, ROC     *)
(* calendar conversion, building age, outlier band) and the histogram mode  *)
(* search analyze_best_range.                                               *)
(*                                                                          *)
(* Text cells are sequences of one-character strings.  pandas.read_csv      *)
(* turns an empty cell into NaN, so the empty sequence NA stands for a      *)
(* missing cell.  float64 values are records [k, n, d]: k = "fin" is the    *)
(* rational n/d in lowest terms (d > 0), k = "inf" is +-infinity (sign n),  *)
(* k = "nan" is NaN and k = "tiny" is +-2^-1074, the smallest subnormal.    *)
(* Finite arithmetic is exact; rounding is modelled only where it decides   *)
(* a branch of the code (the underflow of a product to 0).                  *)
(***************************************************************************)
EXTENDS Integers, Sequences, FiniteSets, TLC

VARIABLES zip_content, call, df, pc, analysis

vars == <<zip_content, call, df, pc, analysis>>

-----------------------------------------------------------------------------
(* Bounds of the model *)

MaxRows == 2

MaxVals == 4

-----------------------------------------------------------------------------
(* Program constants *)

ROC_OFFSET == 1911

PRICE_SCALE == 10000

BAND_HIGH == 300

DATE_SUFFIX == 4

MIN_DATE_LEN == 6

MIN_BUILD_LEN == 3

\* 0.3025 (square metres to ping) and 0.1 (lower edge of the band) as fractions
PING_NUM == 3025

PING_DEN == 10000

BAND_LOW_DEN == 10

\* quantile(0.95) = 19/20
Q_NUM == 19

Q_DEN == 20

PRICE_STEP == 5

TOTAL_STEP == 100

-----------------------------------------------------------------------------
(* Text helpers *)

NA == <<>>

Digits == {"0", "1", "2", "3", "4", "5", "6", "7", "8", "9"}

DigitVal(c) ==
    CASE c = "0" -> 0 [] c = "1" -> 1 [] c = "2" -> 2 [] c = "3" -> 3
      [] c = "4" -> 4 [] c = "5" -> 5 [] c = "6" -> 6 [] c = "7" -> 7
      [] c = "8" -> 8 [] c = "9" -> 9

IsDigits(s) == Len(s) > 0 /\ \A i \in 1..Len(s) : s[i] \in Digits

RECURSIVE DecVal(_)
DecVal(s) ==
    IF s = <<>> THEN 0
    ELSE 10 * DecVal(SubSeq(s, 1, Len(s) - 1)) + DigitVal(s[Len(s)])

RECURSIVE Pow10(_)
Pow10(k) == IF k = 0 THEN 1 ELSE 10 * Pow10(k - 1)

\* str.contains(sub): sub occurs in s as a contiguous substring
Contains(s, sub) ==
    \E i \in 1..(Len(s) - Len(sub) + 1) : SubSeq(s, i, i + Len(sub) - 1) = sub

\* Python int(text): an optional sign followed by decimal digits
IntParses(s) ==
    \/ IsDigits(s)
    \/ Len(s) > 1 /\ s[1] \in {"-", "+"} /\ IsDigits(Tail(s))

IntVal(s) ==
    IF s[1] = "-" THEN 0 - DecVal(Tail(s))
    ELSE IF s[1] = "+" THEN DecVal(Tail(s))
    ELSE DecVal(s)

\* text[:-4]
DropSuffix(s) == SubSeq(s, 1, Len(s) - DATE_SUFFIX)

-----------------------------------------------------------------------------
(* float64 values *)

Abs(x) == IF x < 0 THEN 0 - x ELSE x

Sgn(x) == IF x < 0 THEN 0 - 1 ELSE 1

RECURSIVE GCD(_, _)
GCD(a, b) == IF b = 0 THEN a ELSE GCD(b, a % b)

Fin(n, d) ==
    LET g == GCD(Abs(n), Abs(d))
        s == Sgn(d)
    IN  [k |-> "fin", n |-> s * (n \div g), d |-> s * (d \div g)]

Zero == [k |-> "fin", n |-> 0, d |-> 1]

Inf(s) == [k |-> "inf", n |-> s, d |-> 1]

NaN == [k |-> "nan", n |-> 0, d |-> 1]

DenormMin == [k |-> "tiny", n |-> 1, d |-> 1]

IsZero(x) == x.k = "fin" /\ x.n = 0

\* x * c for a finite non-zero constant c; the smallest subnormal times a
\* constant of magnitude below 1/2 rounds to 0
fmul(x, c) ==
    CASE x.k = "fin"  -> Fin(x.n * c.n, x.d * c.d)
      [] x.k = "inf"  -> Inf(x.n * Sgn(c.n))
      [] x.k = "tiny" -> IF 2 * Abs(c.n) < c.d THEN Zero ELSE x
      [] OTHER        -> NaN

\* a / b as numpy computes it: division by zero gives +-inf, 0/0 and
\* inf/inf give NaN, nothing is raised
truediv(a, b) ==
    CASE a.k = "nan" \/ b.k = "nan" -> NaN
      [] b.k = "inf" -> IF a.k = "inf" THEN NaN ELSE Zero
      [] a.k = "inf" -> Inf(a.n * Sgn(b.n))
      [] b.k = "tiny" -> IF IsZero(a) THEN Zero ELSE Inf(Sgn(a.n) * b.n)
      [] IsZero(b) -> IF IsZero(a) THEN NaN ELSE Inf(Sgn(a.n))
      [] a.k = "tiny" -> IF 2 * b.d < Abs(b.n) THEN Zero ELSE a
      [] OTHER -> Fin(a.n * b.d, a.d * b.n)

\* a > b and a < b on float64 (every comparison with NaN is false)
fgt(a, b) ==
    CASE a.k = "nan" \/ b.k = "nan" -> FALSE
      [] a.k = "inf" -> a.n > 0 /\ ~(b.k = "inf" /\ b.n > 0)
      [] b.k = "inf" -> b.n < 0
      [] a.k = "tiny" -> IF b.k = "tiny" THEN a.n > b.n
                         ELSE b.n < 0 \/ (b.n = 0 /\ a.n > 0)
      [] b.k = "tiny" -> a.n > 0 \/ (a.n = 0 /\ b.n < 0)
      [] OTHER -> a.n * b.d > b.n * a.d

flt(a, b) == fgt(b, a)

\* Series.replace([inf, -inf], 0)
replace_inf(x) == IF x.k = "inf" THEN Zero ELSE x

\* Series.fillna(0)
fillna(x) == IF x.k = "nan" THEN Zero ELSE x

\* position of the decimal point in a text, 0 when there is none
DotPos(s) ==
    IF \E i \in 1..Len(s) : s[i] = "."
    THEN CHOOSE i \in 1..Len(s) : s[i] = "." /\ \A j \in 1..(i - 1) : s[j] # "."
    ELSE 0

IsDecimal(s) ==
    LET p == DotPos(s)
    IN  IF p = 0 THEN IsDigits(s)
        ELSE IsDigits(SubSeq(s, 1, p - 1)) /\ IsDigits(SubSeq(s, p + 1, Len(s)))

DecimalVal(s) ==
    LET p == DotPos(s)
    IN  IF p = 0 THEN Fin(DecVal(s), 1)
        ELSE Fin(DecVal(SubSeq(s, 1, p - 1)) * Pow10(Len(s) - p)
                   + DecVal(SubSeq(s, p + 1, Len(s))), Pow10(Len(s) - p))

\* pd.to_numeric(text, errors='coerce'): the parsed float, NaN when the
\* text is missing or does not parse
to_numeric(s) ==
    CASE s = NA -> NaN
      [] IsDecimal(s) -> DecimalVal(s)
      [] Len(s) > 1 /\ s[1] = "-" /\ IsDecimal(Tail(s)) ->
            fmul(DecimalVal(Tail(s)), Fin(0 - 1, 1))
      [] s = <<"i", "n", "f">> -> Inf(1)
      [] s = <<"5", "e", "-", "3", "2", "4">> -> DenormMin
      [] OTHER -> NaN

-----------------------------------------------------------------------------
(* Columns of a raw CSV row (all text):                                    *)
(*   district   = 鄉鎮市區          subject  = 交易標的                    *)
(*   tx_date    = 交易年月日        build_date = 建築完成年月              *)
(*   total      = 總價元            unit_src = 單價元平方公尺              *)
(*   barea      = 建物移轉總面積平方公尺                                   *)
(*   larea      = 土地移轉總面積平方公尺                                   *)
(* Columns process_data adds:                                              *)
(*   total_major = 總價_萬元   area_units = 面積_坪                        *)
(*   unit_price  = 單價_萬元_坪   transaction_year = 交易年_西元           *)
(*   building_age = 屋齡                                                   *)
(* idx is the DataFrame index label (the row's position in the CSV).       *)

\* Chinese characters are written as their pinyin: "fang" 房, "di" 地,
\* "jian" 建, "wu" 物, "tu" 土, "che" 車, "wei" 位
HOUSE == <<"fang", "di">>

BUILDING == <<"jian", "wu">>

LAND == <<"tu", "di">>

\* type_filter: "fangdi" 房地, "tudi" 土地, "quanbu" 全部
TypeFilters == {"fangdi", "tudi", "quanbu"}

None == [none |-> TRUE, rows |-> <<>>]

Frame(rows) == [none |-> FALSE, rows |-> rows]

Map(s, F(_)) == [i \in 1..Len(s) |-> F(s[i])]

\* pd.read_csv: one frame row per CSV line, labelled 0, 1, 2, ...
read_csv(lines) == [i \in 1..Len(lines) |-> [idx |-> i - 1, raw |-> lines[i]]]

\* df.iloc[1:]: the first line is the English description of the columns
iloc1(t) == IF t = <<>> THEN <<>> ELSE Tail(t)

\* df[df['鄉鎮市區'].isin(district_list)], skipped for an empty list
filter_district(t, district_list) ==
    IF district_list = {} THEN t
    ELSE SelectSeq(t, LAMBDA r : r.raw.district \in district_list)

\* the mask kept under type_filter 房地
keep_house(label) == Contains(label, HOUSE) \/ Contains(label, BUILDING)

\* the mask kept under type_filter 土地
keep_land(label) == Contains(label, LAND) /\ ~Contains(label, HOUSE)

filter_subject(t, type_filter) ==
    CASE type_filter = "fangdi" -> SelectSeq(t, LAMBDA r : keep_house(r.raw.subject))
      [] type_filter = "tudi" -> SelectSeq(t, LAMBDA r : keep_land(r.raw.subject))
      [] OTHER -> t

\* pd.to_numeric(df[c], errors='coerce').fillna(0) on the four numeric columns
coerce(r) ==
    [idx |-> r.idx, raw |-> r.raw,
     total    |-> fillna(to_numeric(r.raw.total)),
     unit_src |-> fillna(to_numeric(r.raw.unit_src)),
     barea    |-> fillna(to_numeric(r.raw.barea)),
     larea    |-> fillna(to_numeric(r.raw.larea))]

total_major(r) == truediv(r.total, Fin(PRICE_SCALE, 1))

\* area_units with the priorities inverted: land area whenever there is one
area_units_land_first(r) ==
    LET a == fmul(r.larea, Fin(PING_NUM, PING_DEN))
    IN  IF IsZero(a) THEN fmul(r.barea, Fin(PING_NUM, PING_DEN)) ELSE a

\* area_units without the land fallback
area_units_no_fallback(r) == fmul(r.barea, Fin(PING_NUM, PING_DEN))

\* 面積_坪: building area in ping; rows whose product is 0 take the land area
area_units(r) ==
    LET a == fmul(r.barea, Fin(PING_NUM, PING_DEN))
    IN  IF IsZero(a) THEN fmul(r.larea, Fin(PING_NUM, PING_DEN)) ELSE a

\* unit_price that keeps the source's unit price when the source has one
unit_price_trusting(r) ==
    IF ~IsZero(r.unit_src) THEN r.unit_src
    ELSE fillna(replace_inf(truediv(total_major(r), area_units(r))))

\* 單價_萬元_坪, recomputed, with +-inf and NaN replaced by 0
unit_price(r) == fillna(replace_inf(truediv(total_major(r), area_units(r))))

derive(r) ==
    [idx |-> r.idx, raw |-> r.raw, total |-> r.total, unit_src |-> r.unit_src,
     barea |-> r.barea, larea |-> r.larea,
     total_major |-> total_major(r),
     area_units  |-> area_units(r),
     unit_price  |-> unit_price(r)]

\* parse_roc_year accepting any text longer than the 4-character suffix
parse_roc_year_short(x) ==
    IF x # NA /\ Len(x) > DATE_SUFFIX
    THEN IF IntParses(DropSuffix(x))
         THEN <<IntVal(DropSuffix(x)) + ROC_OFFSET>>
         ELSE <<>>
    ELSE <<>>

\* Optional year: <<>> is Python's None, <<y>> the year y
parse_roc_year(x) ==
    IF x # NA /\ Len(x) >= MIN_DATE_LEN
    THEN IF IntParses(DropSuffix(x))
         THEN <<IntVal(DropSuffix(x)) + ROC_OFFSET>>
         ELSE <<>>
    ELSE <<>>

\* df['交易年_西元'] = ...apply(parse_roc_year); df.dropna(subset=[...])
with_year(t) ==
    LET y(r) == [idx |-> r.idx, raw |-> r.raw, total |-> r.total,
                 unit_src |-> r.unit_src, barea |-> r.barea, larea |-> r.larea,
                 total_major |-> r.total_major, area_units |-> r.area_units,
                 unit_price |-> r.unit_price,
                 year |-> parse_roc_year(r.raw.tx_date)]
    IN  SelectSeq(Map(t, y), LAMBDA r : r.year # <<>>)

Max(a, b) == IF a >= b THEN a ELSE b

\* calc_age that forgets the 1911 offset of the completion year
calc_age_no_offset(build_date, transaction_year) ==
    IF build_date = NA \/ Len(build_date) < MIN_BUILD_LEN THEN 0
    ELSE IF ~IntParses(DropSuffix(build_date)) THEN 0
    ELSE Max(transaction_year - IntVal(DropSuffix(build_date)), 0)

\* calc_age(row) on a row that has its transaction year
calc_age(build_date, transaction_year) ==
    IF build_date = NA \/ Len(build_date) < MIN_BUILD_LEN THEN 0
    ELSE IF ~IntParses(DropSuffix(build_date)) THEN 0
    ELSE Max(transaction_year - (IntVal(DropSuffix(build_date)) + ROC_OFFSET), 0)

with_age(r) ==
    [idx |-> r.idx, raw |-> r.raw, total |-> r.total, unit_src |-> r.unit_src,
     barea |-> r.barea, larea |-> r.larea,
     total_major |-> r.total_major, area_units |-> r.area_units,
     unit_price |-> r.unit_price,
     transaction_year |-> r.year[1],
     building_age |-> calc_age(r.raw.build_date, r.year[1])]

\* the band with its edges included
in_band_closed(u) == ~flt(u, Fin(1, BAND_LOW_DEN)) /\ ~fgt(u, Fin(BAND_HIGH, 1))

\* (df['單價_萬元_坪'] > 0.1) & (df['單價_萬元_坪'] < 300)
in_band(u) == fgt(u, Fin(1, BAND_LOW_DEN)) /\ flt(u, Fin(BAND_HIGH, 1))

exclude_outliers(t) == SelectSeq(t, LAMBDA r : in_band(r.unit_price))

process_data(zip, district_list, type_filter) ==
    IF zip.empty THEN None
    ELSE IF ~zip.member THEN None
    ELSE LET t0 == iloc1(read_csv(zip.lines))
             t1 == filter_district(t0, district_list)
             t2 == filter_subject(t1, type_filter)
             t3 == Map(Map(t2, coerce), derive)
             t4 == with_year(t3)
             t5 == Map(t4, with_age)
         IN  Frame(exclude_outliers(t5))

-----------------------------------------------------------------------------
(* analyze_best_range *)

Columns == {"unit_price", "total_major"}

Col(rows, col) ==
    [i \in 1..Len(rows) |->
        IF col = "unit_price" THEN rows[i].unit_price ELSE rows[i].total_major]

fadd(a, b) == Fin(a.n * b.d + b.n * a.d, a.d * b.d)

fsub(a, b) == Fin(a.n * b.d - b.n * a.d, a.d * b.d)

\* int(x): truncation toward zero
int(x) == IF x.n >= 0 THEN x.n \div x.d ELSE 0 - ((0 - x.n) \div x.d)

\* Series.min()
min(c) == CHOOSE v \in {c[i] : i \in 1..Len(c)} :
              \A i \in 1..Len(c) : ~flt(c[i], v)

\* Series.quantile(0.95): linear interpolation between the two order
\* statistics around position (n - 1) * 0.95
quantile95(c) ==
    LET s   == SortSeq(c, LAMBDA a, b : flt(a, b))
        pos == (Len(c) - 1) * Q_NUM
        lo  == pos \div Q_DEN
        r   == pos % Q_DEN
    IN  IF r = 0 THEN s[lo + 1]
        ELSE fadd(s[lo + 1], fmul(fsub(s[lo + 2], s[lo + 1]), Fin(r, Q_DEN)))

min_v(c) == int(min(c))

max_v(c, step) ==
    LET m == int(quantile95(c))
    IN  IF m <= min_v(c) THEN min_v(c) + step ELSE m

\* range(min_v, max_v + step, step): the bin edges
bins(c, step) ==
    LET n == ((max_v(c, step) + step - min_v(c)) + step - 1) \div step
    IN  [j \in 1..n |-> min_v(c) + (j - 1) * step]

\* pd.cut with right=False: left-closed bins [e, e + step)
cut_left_closed(x, edges) ==
    LET ids == Cardinality({j \in 1..Len(edges) : ~fgt(Fin(edges[j], 1), x)})
    IN  IF ids = 0 \/ ids = Len(edges) THEN 0 ELSE ids

\* pd.cut(x, bins, include_lowest=True) with the default right=True:
\* searchsorted(side='left') counts the edges below x; x == bins[0] is moved
\* into the first bin; 0 stands for NaN (x outside the edges)
cut(x, edges) ==
    LET ids == Cardinality({j \in 1..Len(edges) : flt(Fin(edges[j], 1), x)})
    IN  IF x = Fin(edges[1], 1) THEN 1
        ELSE IF ids = 0 \/ ids = Len(edges) THEN 0
        ELSE ids

\* out.value_counts(): one count per bin, empty bins included
value_counts(out, nbins) ==
    [j \in 1..nbins |-> Cardinality({i \in 1..Len(out) : out[i] = j})]

\* the bins an ascending sort puts first
first_sorted_ascending(counts) ==
    {j \in 1..Len(counts) : \A k \in 1..Len(counts) : counts[k] >= counts[j]}

\* the bins that .sort_values(ascending=False) may put first: the default
\* quicksort is not stable, so any bin holding the largest count
first_sorted(counts) ==
    {j \in 1..Len(counts) : \A k \in 1..Len(counts) : counts[k] <= counts[j]}

\* the Interval label of bin j: (left, right], the first left edge lowered
\* by 10^-3 so that the closed-right interval contains bins[0]
interval(edges, j) ==
    [left  |-> IF j = 1 THEN Fin(edges[1] * 1000 - 1, 1000) ELSE Fin(edges[j], 1),
     right |-> Fin(edges[j + 1], 1)]

NoInterval == [left |-> Zero, right |-> Zero]

NoAnalysis ==
    [done |-> FALSE, col |-> "", step |-> 0, bins |-> <<>>, out |-> <<>>,
     counts |-> <<>>, best |-> 0, interval |-> NoInterval, count |-> 0]

\* the results analyze_best_range(df, col, step) can return, with the
\* intermediate values it computed; best = 0 is the returned None
analyze_best_range(rows, col, step) ==
    IF rows = <<>>
    THEN {[done |-> TRUE, col |-> col, step |-> step, bins |-> <<>>, out |-> <<>>,
           counts |-> <<>>, best |-> 0, interval |-> NoInterval, count |-> 0]}
    ELSE LET c      == Col(rows, col)
             edges  == bins(c, step)
             out    == [i \in 1..Len(c) |-> cut(c[i], edges)]
             counts == value_counts(out, Len(edges) - 1)
         IN  {[done |-> TRUE, col |-> col, step |-> step, bins |-> edges,
               out |-> out, counts |-> counts, best |-> j,
               interval |-> interval(edges, j), count |-> counts[j]] :
                  j \in first_sorted(counts)}

-----------------------------------------------------------------------------
(* Inputs *)

Seqs(S, n) == UNION {[1..k -> S] : k \in 0..n}

D1 == "Douliu"

D2 == "Huwei"

Districts == {D1, D2}

DistrictLists == {{}, {D1}}

\* subject labels: 房地(土地+建物), 土地, 建物, 車位, 土地+建物
L_HOUSE == <<"fang", "di", "(", "tu", "di", "+", "jian", "wu", ")">>

L_LAND == <<"tu", "di">>

L_BUILDING == <<"jian", "wu">>

L_PARKING == <<"che", "wei">>

L_LAND_BUILDING == <<"tu", "di", "+", "jian", "wu">>

Labels == {L_HOUSE, L_LAND, L_BUILDING, L_PARKING, L_LAND_BUILDING}

D_1130615 == <<"1", "1", "3", "0", "6", "1", "5">>

D_1000101 == <<"1", "0", "0", "0", "1", "0", "1">>

\* transaction dates: missing, 7 and 6 characters, 5 characters, a
\* non-numeric year
TxDates ==
    {NA, D_1130615, <<"9", "9", "0", "6", "1", "5">>,
     <<"3", "0", "6", "1", "5">>, <<"1", "x", "3", "0", "6", "1", "5">>}

\* completion dates: missing, past, future, 5, 4 and 2 characters, a
\* non-numeric year
D_1200101 == <<"1", "2", "0", "0", "1", "0", "1">>

D_90101 == <<"9", "0", "1", "0", "1">>

BuildDates ==
    {NA, D_1000101, D_1200101, D_90101, <<"0", "1", "0", "1">>, <<"0", "1">>,
     <<"x", "0", "0", "0", "1", "0", "1">>}

N_0 == <<"0">>

N_1 == <<"1">>

N_100 == <<"1", "0", "0">>

N_200 == <<"2", "0", "0">>

N_30000000 == <<"3", "0", "0", "0", "0", "0", "0", "0">>

N_10000000 == <<"1", "0", "0", "0", "0", "0", "0", "0">>

\* 90.75 / 0.3025 = 300 and 6.05 / 60.5 = 0.1: the two edges of the band
N_907500 == <<"9", "0", "7", "5", "0", "0">>

N_60500 == <<"6", "0", "5", "0", "0">>

T_INF == <<"i", "n", "f">>

T_ABC == <<"a", "b", "c">>

T_DENORM == <<"5", "e", "-", "3", "2", "4">>

T_999 == <<"9", "9", "9">>

T_12_5 == <<"1", "2", ".", "5">>

\* the second line of the file: the English description of each column
EnglishRow ==
    [district |-> "The villages and towns urban district",
     subject |-> <<"e", "n">>, tx_date |-> <<"e", "n">>,
     build_date |-> <<"e", "n">>, total |-> <<"e", "n">>,
     unit_src |-> <<"e", "n">>, barea |-> <<"e", "n">>, larea |-> <<"e", "n">>]

PriceRow(total, barea, larea) ==
    [district |-> D1, subject |-> L_HOUSE, tx_date |-> D_1130615,
     build_date |-> D_1000101, unit_src |-> NA,
     total |-> total, barea |-> barea, larea |-> larea]

\* prices inside, above, below and on the edges of the band, zero and
\* non-finite divisions, unparseable and underflowing building areas
PriceRows ==
    {PriceRow(t, b, l) :
        t \in {N_10000000, N_0}, b \in {N_100, N_0}, l \in {N_200, N_0}}
    \cup {PriceRow(N_907500, N_1, N_0), PriceRow(N_907500, N_100, N_0)}
    \cup {PriceRow(N_10000000, b, l) :
            b \in {T_ABC, T_DENORM}, l \in {N_200, N_0}}
    \cup {PriceRow(T_INF, N_100, N_0), PriceRow(T_INF, N_0, N_0),
          PriceRow(N_60500, N_0, N_200)}

UnitRows ==
    {[r EXCEPT !.unit_src = u] :
        r \in {PriceRow(N_10000000, N_100, N_200),
               PriceRow(N_10000000, N_0, N_200),
               PriceRow(N_0, N_100, N_200)},
        u \in {NA, T_999, T_12_5}}

DateRows ==
    [district : {D1}, subject : {L_HOUSE}, tx_date : TxDates,
     build_date : BuildDates,
     total : {N_30000000}, unit_src : {NA}, barea : {N_100}, larea : {N_0}]

LabelRows ==
    [district : Districts, subject : Labels, tx_date : {D_1130615},
     build_date : {D_1000101}, total : {N_30000000, N_0}, unit_src : {NA},
     barea : {N_100}, larea : {N_0}]

EmptyZip == [empty |-> TRUE, member |-> FALSE, lines |-> <<>>]

NoMemberZip == [empty |-> FALSE, member |-> FALSE, lines |-> <<>>]

Zips(Rows) ==
    {EmptyZip, NoMemberZip}
      \cup {[empty |-> FALSE, member |-> TRUE, lines |-> <<EnglishRow>> \o t] :
              t \in Seqs(Rows, MaxRows)}

NoCall == [district_list |-> {}, type_filter |-> "quanbu"]

-----------------------------------------------------------------------------
(* State machine *)

InitWith(Rows) ==
    /\ zip_content \in Zips(Rows)
    /\ call = NoCall
    /\ df = None
    /\ pc = "start"
    /\ analysis = NoAnalysis

Init == InitWith(PriceRows)

InitDates == InitWith(DateRows)

InitLabels == InitWith(LabelRows)

InitUnit == InitWith(UnitRows)

\* analyze_best_range on its own: any frame of up to MaxVals rows whose
\* unit_price column is drawn from Values (total_major is ten times it)
Values == {Fin(1, 2), Fin(1, 1), Fin(2, 1), Fin(3, 1), Fin(5, 1), Fin(13, 2)}

Steps == {1, 2, 5}

InitAnalyze ==
    /\ zip_content = EmptyZip
    /\ call = NoCall
    /\ \E c \in Seqs(Values, MaxVals) :
          df = Frame([i \in 1..Len(c) |->
                        [idx |-> i, unit_price |-> c[i],
                         total_major |-> fmul(c[i], Fin(10, 1))]])
    /\ pc = "processed"
    /\ analysis = NoAnalysis

\* df_final = process_data(zip_file, city, selected_dist, target_type)
ProcessData(district_list, type_filter) ==
    /\ pc = "start"
    /\ df' = process_data(zip_content, district_list, type_filter)
    /\ call' = [district_list |-> district_list, type_filter |-> type_filter]
    /\ pc' = "processed"
    /\ analysis' = NoAnalysis
    /\ UNCHANGED zip_content

\* the two calls of the report on a non-empty df_final
AnalyzeFinal ==
    /\ pc = "processed"
    /\ ~df.none
    /\ df.rows # <<>>
    /\ \E c \in {<<"unit_price", PRICE_STEP>>, <<"total_major", TOTAL_STEP>>} :
           analysis' \in analyze_best_range(df.rows, c[1], c[2])
    /\ UNCHANGED <<zip_content, call, df, pc>>

\* analyze_best_range(df, col, step) for any column and bin width
AnalyzeBestRange(col, step) ==
    /\ pc = "processed"
    /\ ~df.none
    /\ analysis' \in analyze_best_range(df.rows, col, step)
    /\ pc' = "analyzed"
    /\ UNCHANGED <<zip_content, call, df>>

Next ==
    \/ \E dl \in DistrictLists, tf \in TypeFilters : ProcessData(dl, tf)
    \/ AnalyzeFinal

Spec == Init /\ [][Next]_vars

SpecDates == InitDates /\ [][Next]_vars

SpecLabels == InitLabels /\ [][Next]_vars

SpecUnit == InitUnit /\ [][Next]_vars

NextAnalyze == \E col \in Columns, step \in Steps : AnalyzeBestRange(col, step)

SpecAnalyze == InitAnalyze /\ [][NextAnalyze]_vars

-----------------------------------------------------------------------------
(* Properties of process_data *)

\* process_data has returned
Requested == pc # "start"

ZipOk == ~zip_content.empty /\ zip_content.member

\* index labels of the data lines (label 0 is the English description)
DataIdx == 1..(Len(zip_content.lines) - 1)

RawAt(i) == zip_content.lines[i + 1]

Present(i) == \E j \in 1..Len(df.rows) : df.rows[j].idx = i

\* the Record Filter of the call keeps the line
PassesFilter(raw) ==
    /\ call.district_list = {} \/ raw.district \in call.district_list
    /\ call.type_filter = "fangdi" =>
          Contains(raw.subject, HOUSE) \/ Contains(raw.subject, BUILDING)
    /\ call.type_filter = "tudi" =>
          Contains(raw.subject, LAND) /\ ~Contains(raw.subject, HOUSE)

\* 0.1 < x < 300 on an exact fraction
StrictlyInBand(x) == x.k = "fin" /\ 10 * x.n > x.d /\ x.n < 300 * x.d

\* x rounded to the nearest 1/scale is v/scale
Near(x, v, scale) == x.k = "fin" /\ 2 * Abs(x.n * scale - v * x.d) <= x.d

Ping(x) == fmul(x, Fin(3025, 10000))

\* the date fails the Calendar Normalizer: missing, shorter than 6
\* characters, or a year prefix that is no integer
FailsConversion(x) ==
    x = NA \/ Len(x) < 6 \/ ~IntParses(SubSeq(x, 1, Len(x) - 4))

YearOf(x) == IntVal(SubSeq(x, 1, Len(x) - 4)) + 1911

\* C1: every record of the returned table has a finite unit_price with
\* 0.1 < unit_price < 300, and every input record whose recomputed unit
\* price (0 after a zero or non-finite division) is outside that band is
\* absent from the table, under every district / subject filter.
C1_Band ==
    (Requested /\ ~df.none) =>
        /\ \A j \in 1..Len(df.rows) : StrictlyInBand(df.rows[j].unit_price)
        /\ \A i \in DataIdx :
              ~StrictlyInBand(unit_price(coerce([idx |-> i, raw |-> RawAt(i)])))
                 => ~Present(i)

\* C1 witness: a table that keeps one record and has dropped a record whose
\* area is 0, so that its unit price was coerced to 0 after the division
C1_Witness ==
    /\ Requested /\ ~df.none /\ df.rows # <<>>
    /\ \E i \in DataIdx :
          /\ ~Present(i) /\ PassesFilter(RawAt(i))
          /\ IsZero(area_units(coerce([idx |-> i, raw |-> RawAt(i)])))
          /\ ~IsZero(coerce([idx |-> i, raw |-> RawAt(i)]).total)

\* the area the amended C2 prescribes for a coerced row
ExpectedArea(r) == IF IsZero(Ping(r.barea)) THEN Ping(r.larea) ELSE Ping(r.barea)

\* C2 as claimed: area_units is building_area x 0.3025 when the coerced
\* building area is non-zero, and land_area x 0.3025 exactly when the
\* coerced building area is 0.
C2_Original ==
    (Requested /\ ~df.none) =>
        \A j \in 1..Len(df.rows) :
            LET r == df.rows[j]
            IN  IF IsZero(r.barea) THEN r.area_units = Ping(r.larea)
                ELSE r.area_units = Ping(r.barea) /\ ~IsZero(r.area_units)

\* C2 amended: area_units is building_area x 0.3025 when that product is
\* non-zero and land_area x 0.3025 exactly when the product is 0 (a building
\* area of 0, an unparseable one, or one so small that the product
\* underflows); every record that passes the filters, has a transaction
\* year and a price in the band is in the table with that area.
C2_Amended ==
    (Requested /\ ~df.none) =>
        /\ \A j \in 1..Len(df.rows) :
              df.rows[j].area_units = ExpectedArea(df.rows[j])
        /\ \A i \in DataIdx :
              LET r == coerce([idx |-> i, raw |-> RawAt(i)])
              IN  (/\ PassesFilter(RawAt(i))
                   /\ ~FailsConversion(RawAt(i).tx_date)
                   /\ StrictlyInBand(truediv(truediv(r.total, Fin(10000, 1)),
                                             ExpectedArea(r))))
                  => \E j \in 1..Len(df.rows) :
                        /\ df.rows[j].idx = i
                        /\ df.rows[j].area_units = ExpectedArea(r)

\* C2 witness: the table holds a record on its building area although it
\* has a land area, a record on its land area because its building area is
\* 0, and one on its land area because the product underflowed
C2_Witness ==
    /\ Requested /\ ~df.none
    /\ \E j \in 1..Len(df.rows) :
          LET r == df.rows[j]
          IN  (~IsZero(r.barea) /\ ~IsZero(r.larea) /\ r.area_units = Ping(r.barea))
              \/ (IsZero(r.barea) /\ r.area_units = Ping(r.larea))
    /\ \E j \in 1..Len(df.rows) :
          df.rows[j].barea = DenormMin
            /\ df.rows[j].area_units = Ping(df.rows[j].larea)

\* C3: every returned record has transaction_year = int(date without its
\* last 4 characters) + 1911; a record whose transaction date is missing,
\* shorter than 6 characters or has a non-numeric year is never in the
\* table, and the request still returns a table.
C3_TransactionYear ==
    Requested =>
        /\ ZipOk => ~df.none
        /\ \A j \in 1..Len(df.rows) :
              /\ ~FailsConversion(df.rows[j].raw.tx_date)
              /\ df.rows[j].transaction_year = YearOf(df.rows[j].raw.tx_date)
        /\ \A i \in DataIdx : FailsConversion(RawAt(i).tx_date) => ~Present(i)

\* C3 witness: a file with a 5-character transaction date beside a valid
\* one: a table is returned, it holds the valid record only
C3_Witness ==
    /\ Requested /\ ~df.none /\ Len(df.rows) = 1
    /\ df.rows[1].transaction_year = 2024
    /\ \E i \in DataIdx :
          /\ RawAt(i).tx_date # NA /\ Len(RawAt(i).tx_date) = 5
          /\ PassesFilter(RawAt(i)) /\ ~Present(i)

\* C4 as claimed: building_age is 0 whenever the completion date fails the
\* conversion rule of the transaction dates (missing, shorter than 6
\* characters, non-numeric year), and max(transaction_year - completion
\* year, 0) otherwise.
C4_Claim ==
    (Requested /\ ~df.none) =>
        \A j \in 1..Len(df.rows) :
            LET r == df.rows[j]
            IN  IF FailsConversion(r.raw.build_date) THEN r.building_age = 0
                ELSE r.building_age =
                        Max(r.transaction_year - YearOf(r.raw.build_date), 0)

\* the derived columns of C5
Derived(rows) ==
    [j \in 1..Len(rows) |->
        [idx |-> rows[j].idx, unit_price |-> rows[j].unit_price,
         area_units |-> rows[j].area_units, total_major |-> rows[j].total_major,
         building_age |-> rows[j].building_age]]

AltUnits == {NA, T_999, T_12_5}

\* the file with the source unit price of data line i replaced by alt[i]
WithUnits(zip, alt) ==
    [zip EXCEPT !.lines =
        [i \in 1..Len(zip.lines) |->
            IF i = 1 THEN zip.lines[1]
            ELSE [zip.lines[i] EXCEPT !.unit_src = alt[i - 1]]]]

\* C5: the source's unit-price field is never trusted: any file that
\* differs only in that field gives the same retained records with the
\* same unit_price, area_units, total_price_major and building_age, and
\* unit_price is total_price_major / area_units.
C5_SourceIgnored ==
    (Requested /\ ~df.none) =>
        /\ \A alt \in [DataIdx -> AltUnits] :
              LET other == process_data(WithUnits(zip_content, alt),
                                        call.district_list, call.type_filter)
              IN  ~other.none /\ Derived(other.rows) = Derived(df.rows)
        /\ \A j \in 1..Len(df.rows) :
              LET r == df.rows[j]
              IN  r.unit_price.n * r.area_units.n * r.total_major.d
                    = r.total_major.n * r.area_units.d * r.unit_price.d

\* C5 witness: a retained record whose source unit price parsed to a
\* non-zero number different from the recomputed unit_price
C5_Witness ==
    /\ Requested /\ ~df.none
    /\ \E j \in 1..Len(df.rows) :
          /\ ~IsZero(df.rows[j].unit_src)
          /\ df.rows[j].unit_src # df.rows[j].unit_price

\* C6 as claimed: a record kept in land-only mode is not kept in
\* building+land mode, whatever its subject label.
C6_Claim ==
    (Requested /\ ~df.none /\ call.type_filter = "tudi") =>
        LET house == process_data(zip_content, call.district_list, "fangdi")
        IN  \A j \in 1..Len(df.rows) : \A k \in 1..Len(house.rows) :
                house.rows[k].idx # df.rows[j].idx

IsScenario9(raw) ==
    /\ raw.tx_date = D_1130615 /\ raw.build_date = D_1000101
    /\ raw.total = N_30000000 /\ raw.barea = N_100

Scenario9(age) ==
    (Requested /\ ~df.none) =>
        \A i \in DataIdx :
            (IsScenario9(RawAt(i)) /\ PassesFilter(RawAt(i))) =>
                \E j \in 1..Len(df.rows) :
                    LET r == df.rows[j]
                    IN  /\ r.idx = i
                        /\ r.transaction_year = 2024
                        /\ r.building_age = age
                        /\ r.total_major = Fin(3000, 1)
                        /\ r.area_units = Fin(3025, 100)
                        /\ Near(r.unit_price, 9917, 100)

\* C9 as claimed: transaction date "1130615", completion date "1000101",
\* total price "30000000", building area "100" give transaction_year 2024,
\* building_age 24, total_price_major 3000, area_units 30.25, unit_price
\* about 99.17, and the record is retained.
C9_Original == Scenario9(24)

\* C9 amended: the same record gives building_age 13 (2024 - (100 + 1911)),
\* the other values as claimed.
C9_Amended == Scenario9(13)

\* C9 witness: the record of the scenario is in the returned table
C9_Witness ==
    /\ Requested /\ ~df.none
    /\ \E j \in 1..Len(df.rows) :
          IsScenario9(df.rows[j].raw) /\ df.rows[j].building_age = 13

IsScenario10(raw) ==
    /\ ~FailsConversion(raw.tx_date) /\ raw.barea = N_0
    /\ raw.larea = N_200 /\ raw.total = N_10000000

Scenario10(price, scale) ==
    (Requested /\ ~df.none) =>
        \A i \in DataIdx :
            (IsScenario10(RawAt(i)) /\ PassesFilter(RawAt(i))) =>
                \E j \in 1..Len(df.rows) :
                    LET r == df.rows[j]
                    IN  /\ r.idx = i
                        /\ r.total_major = Fin(1000, 1)
                        /\ r.area_units = Fin(605, 10)
                        /\ Near(r.unit_price, price, scale)

\* C10 as claimed: a valid transaction date, building area "0", land area
\* "200" and total price "10000000" give area_units 60.5 by the land
\* fallback and unit_price about 165.3, and the record is retained.
C10_Original == Scenario10(1653, 10)

\* C10 amended: the same record gives unit_price about 16.53
\* (1000 / 60.5), the other values as claimed.
C10_Amended == Scenario10(1653, 100)

\* C10 witness: the record of the scenario is in the returned table on its
\* land area
C10_Witness ==
    /\ Requested /\ ~df.none
    /\ \E j \in 1..Len(df.rows) :
          IsScenario10(df.rows[j].raw) /\ df.rows[j].area_units = Fin(605, 10)

-----------------------------------------------------------------------------
(* Properties of analyze_best_range *)

\* analyze_best_range has returned for a non-empty frame
Analyzed == analysis.done /\ ~df.none /\ df.rows # <<>>

AnalyzedCol == Col(df.rows, analysis.col)

NBins == Len(analysis.bins) - 1

\* number of records pd.cut put into bin k
InBin(k) == Cardinality({i \in 1..Len(analysis.out) : analysis.out[i] = k})

\* the result is a bin holding the largest count, with that count
ReturnsAMode ==
    /\ analysis.best \in 1..NBins
    /\ analysis.count = InBin(analysis.best)
    /\ \A k \in 1..NBins : InBin(k) <= analysis.count
    /\ analysis.interval.right = Fin(analysis.bins[analysis.best + 1], 1)

\* C7 as claimed: the returned bin holds the maximum count, and among the
\* bins that share the maximum it is the first, the lowest interval start.
C7_Original ==
    Analyzed =>
        /\ ReturnsAMode
        /\ \A k \in 1..NBins : InBin(k) = analysis.count => analysis.best <= k

\* C7 amended: the returned bin holds the maximum count over all bins and
\* is returned with that count; which of several bins sharing the maximum
\* is returned is not fixed.
C7_Amended == Analyzed => ReturnsAMode

\* C7 witness: two bins share a positive maximum and the later one is
\* returned
C7_Witness ==
    /\ Analyzed
    /\ analysis.count > 0
    /\ \E k \in 1..NBins : k < analysis.best /\ InBin(k) = analysis.count

Floor(x) == x.n \div x.d

Trunc(x) == IF x.n >= 0 THEN x.n \div x.d ELSE 0 - ((0 - x.n) \div x.d)

\* v <= x and v < x for an integer edge v and a fraction x
EdgeLe(v, x) == v * x.d <= x.n

EdgeLt(v, x) == v * x.d < x.n

IsMin(v) ==
    /\ \E i \in 1..Len(AnalyzedCol) : AnalyzedCol[i] = v
    /\ \A i \in 1..Len(AnalyzedCol) : v.n * AnalyzedCol[i].d <= AnalyzedCol[i].n * v.d

ColMin == CHOOSE v \in {AnalyzedCol[i] : i \in 1..Len(AnalyzedCol)} : IsMin(v)

Upper(lower, p95) == IF p95 <= lower THEN lower + analysis.step ELSE p95

FixedWidth ==
    /\ Len(analysis.bins) >= 2
    /\ \A j \in 1..NBins : analysis.bins[j + 1] = analysis.bins[j] + analysis.step

\* C8 as claimed: the bins are the contiguous left-inclusive intervals
\* [e, e + width) from lower = floor(minimum) that cover
\* [lower, upper + width), upper = floor(95th percentile) forced to
\* lower + width when it does not exceed lower; a record whose value lies in
\* that range is counted in the bin with left edge <= value < right edge.
C8_Original ==
    Analyzed =>
        LET lower == Floor(ColMin)
            upper == Upper(lower, Floor(quantile95(AnalyzedCol)))
        IN  /\ FixedWidth
            /\ analysis.bins[1] = lower
            /\ analysis.bins[Len(analysis.bins)] >= upper + analysis.step
            /\ \A i \in 1..Len(AnalyzedCol) :
                  (EdgeLe(lower, AnalyzedCol[i])
                     /\ ~EdgeLe(upper + analysis.step, AnalyzedCol[i]))
                  => /\ analysis.out[i] \in 1..NBins
                     /\ EdgeLe(analysis.bins[analysis.out[i]], AnalyzedCol[i])
                     /\ ~EdgeLe(analysis.bins[analysis.out[i] + 1], AnalyzedCol[i])

\* C8 amended: the bins are the contiguous right-inclusive intervals
\* (e, e + width] between the edges lower, lower + width, ... below
\* upper + width, lower = int(minimum), upper = int(95th percentile) forced
\* to lower + width when it does not exceed lower, so the last edge is in
\* [upper, upper + width); a record whose value lies in [lower, last edge]
\* is counted in exactly the bin with left edge < value <= right edge (the
\* first bin also takes value = lower), and no other record is counted.
C8_Amended ==
    Analyzed =>
        LET lower == Trunc(ColMin)
            upper == Upper(lower, Trunc(quantile95(AnalyzedCol)))
            last  == analysis.bins[Len(analysis.bins)]
        IN  /\ FixedWidth
            /\ analysis.bins[1] = lower
            /\ upper <= last /\ last < upper + analysis.step
            /\ \A i \in 1..Len(AnalyzedCol) :
                  IF EdgeLe(lower, AnalyzedCol[i]) /\ ~EdgeLt(last, AnalyzedCol[i])
                  THEN /\ analysis.out[i] \in 1..NBins
                       /\ \/ /\ EdgeLt(analysis.bins[analysis.out[i]], AnalyzedCol[i])
                             /\ ~EdgeLt(analysis.bins[analysis.out[i] + 1], AnalyzedCol[i])
                          \/ /\ AnalyzedCol[i] = Fin(lower, 1)
                             /\ analysis.out[i] = 1
                  ELSE analysis.out[i] = 0

\* C8 witness: a record whose value is an inner edge is counted in the bin
\* that ends at that edge, and a record above the last edge is not counted
C8_Witness ==
    /\ Analyzed
    /\ \E i \in 1..Len(AnalyzedCol) :
          /\ analysis.out[i] >= 1
          /\ analysis.bins[analysis.out[i] + 1] > analysis.bins[2]
          /\ AnalyzedCol[i] = Fin(analysis.bins[analysis.out[i] + 1], 1)
    /\ \E i \in 1..Len(AnalyzedCol) :
          /\ analysis.out[i] = 0
          /\ EdgeLt(analysis.bins[Len(analysis.bins)], AnalyzedCol[i])

====
